---- MODULE Spec2Model ----
(***************************************************************************)
(* Model of UnityJS.cpp (Bridge.cpp): the JNI shim of CBridgePlugin.       *)
(*                                                                         *)
(* The shim's state is six file-scope globals (lines 36-42).  Its entry    *)
(* points are JNI_OnLoad, UnityPluginLoad, UnityPluginUnload, the          *)
(* device-event callback OnGraphicsDeviceEvent, the three JNI natives of   *)
(* CBridgePlugin and the render-thread dispatcher RenderEventFunc.         *)
(*                                                                         *)
(* Pointers and handles are naturals, 0 is the null pointer.  The host     *)
(* side of the two ABIs (the JVM, the engine's graphics layer, the         *)
(* registered deliverer) is modelled by the variables of the second        *)
(* VARIABLES group: what the host holds, saw and sent.                     *)
(***************************************************************************)
EXTENDS Integers, Sequences, FiniteSets, TLC

\* ------------------------------------------------------------------ bounds
\* Delivery calls per behaviour in the relay specification.
MaxCalls == 2
\* Render dispatches per behaviour in the render specification.
MaxRender == 3
\* Delivery calls and render dispatches per behaviour in the specification
\* that interleaves every entry point.
MaxAll == 1

\* ---------------------------------------------------------- value domains
\* Threads of the host process: 1 is the main/JNI thread, 2 the render thread.
Threads == {1, 2}

\* The JavaVM handle the loader passes to JNI_OnLoad (line 51).
VmHandle == 7

\* AttachCurrentThread(&jni_env, 0), line 58: the JNIEnv the VM hands out is
\* the one of the calling thread; distinct threads have distinct JNIEnvs.
AttachCurrentThread(vm, t) == 10 * vm + t

\* IUnityInterfaces handles the engine may pass to UnityPluginLoad (line 67).
Interfaces == {21, 22}

\* unityInterfaces->Get<IUnityGraphics>(), line 71: the graphics interface
\* of an interfaces provider.
GetIUnityGraphics(ifc) == ifc + 10

\* Values the managed side passes to SetUnitySendMessageCallback (line 123):
\* the null pointer and two deliverers.
CallbackPtrs == {0, 31, 32}

\* UnityGfxRenderer: the null marker the global starts at (line 40), which the
\* graphics layer reports when it runs without a device, and two backends.
kUnityGfxRendererNull == "kUnityGfxRendererNull"
Renderers ==
    {kUnityGfxRendererNull, "kUnityGfxRendererOpenGLES30", "kUnityGfxRendererVulkan"}

\* UnityGfxDeviceEventType, the four cases of the switch (lines 92-110).
kUnityGfxDeviceEventInitialize == "kUnityGfxDeviceEventInitialize"
kUnityGfxDeviceEventShutdown == "kUnityGfxDeviceEventShutdown"
kUnityGfxDeviceEventBeforeReset == "kUnityGfxDeviceEventBeforeReset"
kUnityGfxDeviceEventAfterReset == "kUnityGfxDeviceEventAfterReset"
DeviceEvents ==
    { kUnityGfxDeviceEventInitialize, kUnityGfxDeviceEventShutdown,
      kUnityGfxDeviceEventBeforeReset, kUnityGfxDeviceEventAfterReset }

\* Event codes the engine passes to RenderEventFunc (line 168): the three
\* cases of the switch, one below and one above them.
EventIds == {-1, 0, 1, 2, 3}

\* The class and static method RenderEventFunc looks up (lines 188, 192).
ClassName == "com/ground_up_software/bridge/CBridgePlugin"
MethodName == "RenderUpdateBridgePlugins"
MethodSig == "()V"

\* Java strings are sequences of UTF-16 code units.  The triples the managed
\* side sends: plain ASCII, an empty text next to an embedded U+0000 and a
\* two-byte character, and a three-byte character with repeated texts.
JavaTriples ==
    { << <<65>>, <<66>>, <<67>> >>,
      << <<>>, <<0, 65>>, <<233>> >>,
      << <<8364>>, <<65>>, <<65>> >> }

ArgNames == {"targetString", "methodString", "messageString"}

\* ------------------------------------------------------ JNI string buffers
\* Modified UTF-8 of one UTF-16 code unit, as GetStringUTFChars produces it:
\* U+0001..U+007F one byte, U+0000 and U+0080..U+07FF two bytes, the rest
\* three bytes.  No byte of the encoding is 0.
EncodeUnit(c) ==
    IF c >= 1 /\ c <= 127 THEN << c >>
    ELSE IF c <= 2047 THEN << 192 + (c \div 64), 128 + (c % 64) >>
    ELSE << 224 + (c \div 4096), 128 + ((c \div 64) % 64), 128 + (c % 64) >>

RECURSIVE EncodeUnits(_)
EncodeUnits(s) ==
    IF s = << >> THEN << >> ELSE EncodeUnit(Head(s)) \o EncodeUnits(Tail(s))

\* env->GetStringUTFChars(str, 0), lines 143-145: a freshly pinned,
\* NUL-terminated char buffer holding the modified UTF-8 of the string.
GetStringUTFChars(s) == EncodeUnits(s) \o << 0 >>

\* What a callee reads through a const char *: the bytes before the first 0.
RECURSIVE CString(_)
CString(buf) ==
    IF buf = << >> \/ Head(buf) = 0 THEN << >>
    ELSE << Head(buf) >> \o CString(Tail(buf))

\* The text a modified UTF-8 byte string stands for.
RECURSIVE DecodeUnits(_)
DecodeUnits(b) ==
    IF b = << >> THEN << >>
    ELSE IF b[1] < 128 THEN << b[1] >> \o DecodeUnits(Tail(b))
    ELSE IF b[1] < 224 /\ Len(b) >= 2
        THEN << (b[1] - 192) * 64 + (b[2] - 128) >> \o DecodeUnits(SubSeq(b, 3, Len(b)))
    ELSE IF Len(b) >= 3
        THEN << (b[1] - 224) * 4096 + (b[2] - 128) * 64 + (b[3] - 128) >>
             \o DecodeUnits(SubSeq(b, 4, Len(b)))
    ELSE << -1 >>

\* -------------------------------------------------------------- variables
VARIABLES
    \* the shim's globals, lines 36-42
    java_vm, jni_env, unity_interfaces, unity_graphics, unity_renderer_type,
    unitySendMessageCallback,
    \* the frame of the delivery call in progress on the main thread
    pc, args, target, method, message

VARIABLES
    \* the JVM: buffers pinned for the call in progress, releases it saw for
    \* that call, static methods invoked and the JNIEnv each call came through
    heldBuffers, releases, javaCalls, javaInvoked, dispatchers,
    \* the log (android/log.h) line count
    traces,
    \* the managed side: delivery calls made while a deliverer was registered
    \* and while none was, the last pointer it registered (a sequence, empty
    \* before the first registration), the deliverer's invocations, whether a deliverer invocation is running
    sendCalls, droppedCalls, lastRegistered, delivered, inDeliverer,
    \* the loader: the thread that loaded the library
    loaderThread,
    \* the engine: the dispatcher address it was given, render dispatches
    \* made with code 2 and with other codes, whether the plugin is loaded,
    \* the last initialize/shutdown event it sent (or load synthesized)
    renderEventFunc, dispatched2, dispatchedOther, pluginLoaded, lastDeviceEvent,
    \* the graphics layer: the backend it reports, whether the device-event
    \* callback is registered, the calls the last lifecycle handler made
    gfxRenderer, deviceEventCallback, gfxCalls

globals ==
    << java_vm, jni_env, unity_interfaces, unity_graphics, unity_renderer_type,
       unitySendMessageCallback >>
frame == << pc, args, target, method, message >>
jvmVars == << heldBuffers, releases, javaCalls, javaInvoked, dispatchers >>
relayVars == << sendCalls, droppedCalls, lastRegistered, delivered, inDeliverer, traces >>
engineVars ==
    << renderEventFunc, dispatched2, dispatchedOther, pluginLoaded, lastDeviceEvent,
       gfxRenderer, deviceEventCallback, gfxCalls >>
vars == << globals, frame, jvmVars, relayVars, loaderThread, engineVars >>

NoArgs == << << >>, << >>, << >> >>
NoEvent == [type |-> "none", reported |-> kUnityGfxRendererNull]

\* Static initialisation: zero-initialised globals (lines 36-39, 42) and
\* unity_renderer_type = kUnityGfxRendererNull (line 40).
Init ==
    /\ java_vm = 0
    /\ jni_env = 0
    /\ unity_interfaces = 0
    /\ unity_graphics = 0
    /\ unity_renderer_type = kUnityGfxRendererNull
    /\ unitySendMessageCallback = 0
    /\ pc = "idle"
    /\ args = NoArgs
    /\ target = << >>
    /\ method = << >>
    /\ message = << >>
    /\ heldBuffers = {}
    /\ releases = [a \in ArgNames |-> 0]
    /\ javaCalls = 0
    /\ javaInvoked = {}
    /\ dispatchers = {}
    /\ traces = 0
    /\ sendCalls = << >>
    /\ droppedCalls = 0
    /\ lastRegistered = << >>
    /\ delivered = << >>
    /\ inDeliverer = FALSE
    /\ loaderThread = 0
    /\ renderEventFunc = 0
    /\ dispatched2 = 0
    /\ dispatchedOther = 0
    /\ pluginLoaded = FALSE
    /\ lastDeviceEvent = NoEvent
    /\ gfxRenderer \in Renderers
    /\ deviceEventCallback = FALSE
    /\ gfxCalls = << >>

\* ------------------------------------------------------- lifecycle notifier
\* The lifecycle handlers run on the record of what they read and write: the
\* three graphics globals, the graphics layer's callback registration and the
\* calls made into the graphics layer, each with the pointer it went through.
LifecycleState ==
    [ unity_interfaces |-> unity_interfaces,
      unity_graphics |-> unity_graphics,
      unity_renderer_type |-> unity_renderer_type,
      deviceEventCallback |-> deviceEventCallback,
      gfxCalls |-> << >> ]

GfxCall(g, fn, via) == [g EXCEPT !.gfxCalls = Append(@, [fn |-> fn, via |-> via])]

\* unity_graphics->GetRenderer(), line 94: what the graphics layer reports now.
GetRenderer == gfxRenderer

\* OnGraphicsDeviceEvent with the reset cases falling into the initialize case.
OnGraphicsDeviceEvent_resetRequeries(g, eventType) ==
    IF eventType = kUnityGfxDeviceEventShutdown
    THEN [g EXCEPT !.unity_renderer_type = kUnityGfxRendererNull]
    ELSE [GfxCall(g, "GetRenderer", g.unity_graphics)
            EXCEPT !.unity_renderer_type = GetRenderer]

\* OnGraphicsDeviceEvent without the assignment of line 101.
OnGraphicsDeviceEvent_shutdownKeeps(g, eventType) ==
    IF eventType = kUnityGfxDeviceEventInitialize
    THEN [GfxCall(g, "GetRenderer", g.unity_graphics)
            EXCEPT !.unity_renderer_type = GetRenderer]
    ELSE g

\* OnGraphicsDeviceEvent, lines 87-116.
OnGraphicsDeviceEvent(g, eventType) ==
    CASE eventType = kUnityGfxDeviceEventInitialize ->
            [GfxCall(g, "GetRenderer", g.unity_graphics)
               EXCEPT !.unity_renderer_type = GetRenderer]
      [] eventType = kUnityGfxDeviceEventShutdown ->
            [g EXCEPT !.unity_renderer_type = kUnityGfxRendererNull]
      [] eventType = kUnityGfxDeviceEventBeforeReset -> g
      [] eventType = kUnityGfxDeviceEventAfterReset -> g
      [] OTHER -> g

\* unity_graphics->RegisterDeviceEventCallback(OnGraphicsDeviceEvent), line 73.
RegisterDeviceEventCallback(g) ==
    [GfxCall(g, "RegisterDeviceEventCallback", g.unity_graphics)
       EXCEPT !.deviceEventCallback = TRUE]

\* unity_graphics->UnregisterDeviceEventCallback(OnGraphicsDeviceEvent), line 82.
UnregisterDeviceEventCallback(g) ==
    [GfxCall(g, "UnregisterDeviceEventCallback", g.unity_graphics)
       EXCEPT !.deviceEventCallback = FALSE]

\* The handler's result written back to the globals and the graphics layer.
Commit(g) ==
    /\ unity_interfaces' = g.unity_interfaces
    /\ unity_graphics' = g.unity_graphics
    /\ unity_renderer_type' = g.unity_renderer_type
    /\ deviceEventCallback' = g.deviceEventCallback
    /\ gfxCalls' = g.gfxCalls

\* What the engine remembers of an event it sent: initialize and shutdown
\* events with the backend the graphics layer reported when it was sent.
Sent(eventType) ==
    IF eventType \in {kUnityGfxDeviceEventInitialize, kUnityGfxDeviceEventShutdown}
    THEN [type |-> eventType, reported |-> gfxRenderer]
    ELSE lastDeviceEvent

\* UnityPluginLoad with line 71 moved below line 74.
UnityPluginLoadBody_initBeforeGet(g, unityInterfaces) ==
    LET g1 == [g EXCEPT !.unity_interfaces = unityInterfaces]
        g2 == RegisterDeviceEventCallback(g1)
        g3 == OnGraphicsDeviceEvent(g2, kUnityGfxDeviceEventInitialize)
    IN  [GfxCall(g3, "Get<IUnityGraphics>", unityInterfaces)
           EXCEPT !.unity_graphics = GetIUnityGraphics(unityInterfaces)]

\* The body of UnityPluginLoad, lines 70-74.
UnityPluginLoadBody(g, unityInterfaces) ==
    LET g1 == [g EXCEPT !.unity_interfaces = unityInterfaces]
        g2 == [GfxCall(g1, "Get<IUnityGraphics>", unityInterfaces)
                 EXCEPT !.unity_graphics = GetIUnityGraphics(unityInterfaces)]
        g3 == RegisterDeviceEventCallback(g2)
    IN  OnGraphicsDeviceEvent(g3, kUnityGfxDeviceEventInitialize)

\* UnityPluginLoad, lines 66-75.  The engine loads a plugin that is not loaded.
UnityPluginLoad(unityInterfaces) ==
    /\ ~pluginLoaded
    /\ Commit(UnityPluginLoadBody(LifecycleState, unityInterfaces))
    /\ pluginLoaded' = TRUE
    /\ lastDeviceEvent' = Sent(kUnityGfxDeviceEventInitialize)
    /\ UNCHANGED << java_vm, jni_env, unitySendMessageCallback, frame, jvmVars,
                    relayVars, loaderThread, renderEventFunc, dispatched2,
                    dispatchedOther, gfxRenderer >>

\* The body of UnityPluginUnload, line 82.
UnityPluginUnloadBody(g) == UnregisterDeviceEventCallback(g)

\* UnityPluginUnload, lines 79-83.  The engine unloads a loaded plugin.
UnityPluginUnload ==
    /\ pluginLoaded
    /\ Commit(UnityPluginUnloadBody(LifecycleState))
    /\ pluginLoaded' = FALSE
    /\ UNCHANGED << java_vm, jni_env, unitySendMessageCallback, frame, jvmVars,
                    relayVars, loaderThread, renderEventFunc, dispatched2,
                    dispatchedOther, lastDeviceEvent, gfxRenderer >>

\* The graphics layer notifies the registered callback of a device event:
\* OnGraphicsDeviceEvent, lines 87-116, reached through the pointer
\* registered at line 73.
DeviceEvent(eventType) ==
    /\ deviceEventCallback
    /\ Commit(OnGraphicsDeviceEvent(LifecycleState, eventType))
    /\ lastDeviceEvent' = Sent(eventType)
    /\ UNCHANGED << java_vm, jni_env, unitySendMessageCallback, frame, jvmVars,
                    relayVars, loaderThread, renderEventFunc, dispatched2,
                    dispatchedOther, pluginLoaded, gfxRenderer >>

\* The graphics layer switches backend: what GetRenderer (line 94) reports
\* changes, and the shim is not told.
GfxDeviceChange(r) ==
    /\ r # gfxRenderer
    /\ gfxRenderer' = r
    /\ UNCHANGED << globals, frame, jvmVars, relayVars, loaderThread,
                    renderEventFunc, dispatched2, dispatchedOther, pluginLoaded,
                    lastDeviceEvent, deviceEventCallback, gfxCalls >>

\* ------------------------------------------------------------ library load
\* JNI_OnLoad, lines 50-62, run once by the thread that loads the library.
JNI_OnLoad(t) ==
    /\ java_vm = 0
    /\ java_vm' = VmHandle
    /\ jni_env' = AttachCurrentThread(VmHandle, t)
    /\ loaderThread' = t
    /\ UNCHANGED << unity_interfaces, unity_graphics, unity_renderer_type,
                    unitySendMessageCallback, frame, jvmVars, relayVars, engineVars >>

\* ------------------------------------------------------------ message relay
\* Line 126 storing only into a null pointer.
StorePointer_keepsFirst(unitySendMessageCallback_) ==
    IF unitySendMessageCallback = 0
    THEN unitySendMessageCallback_ ELSE unitySendMessageCallback

\* The value line 126 stores: the cast of the long to the function pointer
\* type keeps the value.
StorePointer(unitySendMessageCallback_) == unitySendMessageCallback_

\* Java_..._SetUnitySendMessageCallback, lines 120-127.  The natives of
\* CBridgePlugin are callable once the library is loaded, and the managed side
\* calls them one at a time.
Java_com_ground_up_software_bridge_CBridgePlugin_SetUnitySendMessageCallback(unitySendMessageCallback_) ==
    /\ java_vm # 0
    /\ pc = "idle"
    /\ unitySendMessageCallback' = StorePointer(unitySendMessageCallback_)
    /\ lastRegistered' = << unitySendMessageCallback_ >>
    /\ UNCHANGED << java_vm, jni_env, unity_interfaces, unity_graphics,
                    unity_renderer_type, frame, jvmVars, sendCalls, droppedCalls,
                    delivered, inDeliverer, traces, loaderThread, engineVars >>

\* The managed side's view: its last registration was a non-null deliverer.
DelivererRegistered == lastRegistered # << >> /\ lastRegistered[1] # 0

\* Line 138 without its test.
NoCallback_never == FALSE

\* The test of line 138.
NoCallback == unitySendMessageCallback = 0

\* Java_..._UnitySendMessage, lines 131-141: the call and the test of line 138.
\* Without a deliverer the call logs (line 139) and returns (line 140).
SendEntry(triple) ==
    /\ java_vm # 0
    /\ pc = "idle"
    /\ IF DelivererRegistered
       THEN sendCalls' = Append(sendCalls, triple) /\ UNCHANGED droppedCalls
       ELSE droppedCalls' = droppedCalls + 1 /\ UNCHANGED sendCalls
    /\ IF NoCallback
       THEN /\ traces' = traces + 1
            /\ UNCHANGED << frame, heldBuffers, releases >>
       ELSE /\ pc' = "L143"
            /\ args' = triple
            /\ releases' = [a \in ArgNames |-> 0]
            /\ UNCHANGED << target, method, message, heldBuffers, traces >>
    /\ UNCHANGED << globals, javaCalls, javaInvoked, dispatchers, lastRegistered,
                    delivered, inDeliverer, loaderThread, engineVars >>

\* Lines 143-145: the three buffers are pinned, one per line.
GetTarget ==
    /\ pc = "L143"
    /\ target' = GetStringUTFChars(args[1])
    /\ heldBuffers' = heldBuffers \cup {"targetString"}
    /\ pc' = "L144"
    /\ UNCHANGED << globals, args, method, message, releases, javaCalls,
                    javaInvoked, dispatchers, relayVars, loaderThread, engineVars >>

GetMethod ==
    /\ pc = "L144"
    /\ method' = GetStringUTFChars(args[2])
    /\ heldBuffers' = heldBuffers \cup {"methodString"}
    /\ pc' = "L145"
    /\ UNCHANGED << globals, args, target, message, releases, javaCalls,
                    javaInvoked, dispatchers, relayVars, loaderThread, engineVars >>

GetMessage ==
    /\ pc = "L145"
    /\ message' = GetStringUTFChars(args[3])
    /\ heldBuffers' = heldBuffers \cup {"messageString"}
    /\ pc' = "L149"
    /\ UNCHANGED << globals, args, target, method, releases, javaCalls,
                    javaInvoked, dispatchers, relayVars, loaderThread, engineVars >>

\* Line 149 with target and method exchanged.
Invocation_swapped(fn, t, m, msg) ==
    [fn |-> fn, target |-> CString(m), method |-> CString(t), message |-> CString(msg)]

\* unitySendMessageCallback(target, method, message), line 149: what the
\* deliverer is called with, each text as it reads it through its pointer.
Invocation(fn, t, m, msg) ==
    [fn |-> fn, target |-> CString(t), method |-> CString(m), message |-> CString(msg)]

\* Line 149, the call: the deliverer starts running on the calling thread.
CallDeliverer ==
    /\ pc = "L149"
    /\ delivered' = Append(delivered,
                           Invocation(unitySendMessageCallback, target, method, message))
    /\ inDeliverer' = TRUE
    /\ pc' = "L149ret"
    /\ UNCHANGED << globals, args, target, method, message, jvmVars, sendCalls,
                    droppedCalls, lastRegistered, traces, loaderThread, engineVars >>

\* Line 149, the return of the deliverer.
DelivererReturns ==
    /\ pc = "L149ret"
    /\ inDeliverer' = FALSE
    /\ pc' = "L151"
    /\ UNCHANGED << globals, args, target, method, message, jvmVars, sendCalls,
                    droppedCalls, lastRegistered, delivered, traces, loaderThread,
                    engineVars >>

\* env->ReleaseStringUTFChars(string, chars), lines 151-153: the JVM unpins
\* the buffer of that string and counts the release.
ReleaseStringUTFChars(string) ==
    /\ heldBuffers' = heldBuffers \ {string}
    /\ releases' = [releases EXCEPT ![string] = @ + 1]

ReleaseTarget ==
    /\ pc = "L151"
    /\ ReleaseStringUTFChars("targetString")
    /\ pc' = "L152"
    /\ UNCHANGED << globals, args, target, method, message, javaCalls,
                    javaInvoked, dispatchers, relayVars, loaderThread, engineVars >>

ReleaseMethod ==
    /\ pc = "L152"
    /\ ReleaseStringUTFChars("methodString")
    /\ pc' = "L153"
    /\ UNCHANGED << globals, args, target, method, message, javaCalls,
                    javaInvoked, dispatchers, relayVars, loaderThread, engineVars >>

\* Line 153 left out.
ReleaseMessage_leaks == heldBuffers' = heldBuffers /\ UNCHANGED releases

\* Line 153.
ReleaseMessage == ReleaseStringUTFChars("messageString")

\* Line 153 and the return of line 154, which pops the frame.
ReleaseMessageAndReturn ==
    /\ pc = "L153"
    /\ ReleaseMessage
    /\ pc' = "idle"
    /\ args' = NoArgs
    /\ target' = << >>
    /\ method' = << >>
    /\ message' = << >>
    /\ UNCHANGED << globals, javaCalls, javaInvoked, dispatchers, relayVars,
                    loaderThread, engineVars >>

\* The steps of a delivery call past its entry.
SendStep ==
    \/ GetTarget
    \/ GetMethod
    \/ GetMessage
    \/ CallDeliverer
    \/ DelivererReturns
    \/ ReleaseTarget
    \/ ReleaseMethod
    \/ ReleaseMessageAndReturn

\* --------------------------------------------------- render-thread dispatcher
\* The address of RenderEventFunc, line 163.
RenderEventFuncAddr == 99

\* Java_..._GetRenderEventFunc, lines 158-164: the managed side fetches the
\* dispatcher's address and hands it to the engine.
Java_com_ground_up_software_bridge_CBridgePlugin_GetRenderEventFunc ==
    /\ java_vm # 0
    /\ pc = "idle"
    /\ renderEventFunc' = RenderEventFuncAddr
    /\ UNCHANGED << globals, frame, jvmVars, relayVars, loaderThread, dispatched2,
                    dispatchedOther, pluginLoaded, lastDeviceEvent, gfxRenderer,
                    deviceEventCallback, gfxCalls >>

\* jni_env->FindClass(name), line 188.
FindClass(env, name) == [env |-> env, class |-> name]

\* jni_env->GetStaticMethodID(cls, name, sig), line 192.
GetStaticMethodID(env, cls, name, sig) ==
    [env |-> env, class |-> cls.class, name |-> name, sig |-> sig]

\* jni_env->CallStaticVoidMethod(cls, mid), line 195: the invocation the JVM
\* sees, with the JNIEnvs the lookups and the call came through.
CallStaticVoidMethod(env, cls, mid) ==
    [envs |-> {env, cls.env, mid.env}, class |-> cls.class, method |-> mid.name,
     sig |-> mid.sig]

\* The JNIEnv of the thread running the dispatcher.
CurrentEnv(t) == AttachCurrentThread(java_vm, t)

\* The switch with case 2 taken for every code from 2 up.
RenderSwitch_everyCode(t, eventId) ==
    LET cls == FindClass(jni_env, ClassName)
        mid == GetStaticMethodID(jni_env, cls, MethodName, MethodSig)
    IN  IF eventId >= 2 THEN << CallStaticVoidMethod(jni_env, cls, mid) >> ELSE << >>

\* The switch going through the running thread's JNIEnv instead of jni_env.
RenderSwitch_currentThreadEnv(t, eventId) ==
    LET cls == FindClass(CurrentEnv(t), ClassName)
        mid == GetStaticMethodID(CurrentEnv(t), cls, MethodName, MethodSig)
    IN  IF eventId = 2 THEN << CallStaticVoidMethod(CurrentEnv(t), cls, mid) >> ELSE << >>

\* The switch of RenderEventFunc, lines 172-204: the invocations it makes
\* when thread t runs it with eventId.
RenderSwitch(t, eventId) ==
    CASE eventId = 0 -> << >>
      [] eventId = 1 -> << >>
      [] eventId = 2 ->
            LET cls == FindClass(jni_env, ClassName)
                mid == GetStaticMethodID(jni_env, cls, MethodName, MethodSig)
            IN  << CallStaticVoidMethod(jni_env, cls, mid) >>
      [] OTHER -> << >>

\* RenderEventFunc with a case 1 (ShutDown) that clears the deliverer.
RenderEventFunc_shutdownClearsCallback(t, eventId) ==
    /\ renderEventFunc = RenderEventFuncAddr
    /\ LET calls == RenderSwitch(t, eventId)
       IN  /\ javaCalls' = javaCalls + Len(calls)
           /\ javaInvoked' = javaInvoked \cup {calls[i] : i \in 1..Len(calls)}
    /\ IF eventId = 2
       THEN /\ dispatched2' = dispatched2 + 1
            /\ dispatchers' = dispatchers \cup {t}
            /\ UNCHANGED dispatchedOther
       ELSE /\ dispatchedOther' = dispatchedOther + 1
            /\ UNCHANGED << dispatched2, dispatchers >>
    /\ unitySendMessageCallback' = IF eventId = 1 THEN 0 ELSE unitySendMessageCallback
    /\ UNCHANGED << java_vm, jni_env, unity_interfaces, unity_graphics,
                    unity_renderer_type, frame, heldBuffers, releases, relayVars,
                    loaderThread, renderEventFunc, pluginLoaded, lastDeviceEvent,
                    gfxRenderer, deviceEventCallback, gfxCalls >>

\* RenderEventFunc, lines 167-207, run by thread t.  The function is static:
\* the engine reaches it through the address GetRenderEventFunc returned.
RenderEventFunc(t, eventId) ==
    /\ renderEventFunc = RenderEventFuncAddr
    /\ LET calls == RenderSwitch(t, eventId)
       IN  /\ javaCalls' = javaCalls + Len(calls)
           /\ javaInvoked' = javaInvoked \cup {calls[i] : i \in 1..Len(calls)}
    /\ IF eventId = 2
       THEN /\ dispatched2' = dispatched2 + 1
            /\ dispatchers' = dispatchers \cup {t}
            /\ UNCHANGED dispatchedOther
       ELSE /\ dispatchedOther' = dispatchedOther + 1
            /\ UNCHANGED << dispatched2, dispatchers >>
    /\ UNCHANGED << globals, frame, heldBuffers, releases, relayVars, loaderThread,
                    renderEventFunc, pluginLoaded, lastDeviceEvent, gfxRenderer,
                    deviceEventCallback, gfxCalls >>

\* ------------------------------------------------------------ specifications
Deliveries == Len(sendCalls) + droppedCalls
Dispatches == dispatched2 + dispatchedOther

\* Every entry point, interleaved: the lifecycle handlers and the render
\* dispatcher run between the steps of a delivery call.
Next ==
    \/ \E t \in Threads : JNI_OnLoad(t)
    \/ \E i \in Interfaces : UnityPluginLoad(i)
    \/ UnityPluginUnload
    \/ \E e \in DeviceEvents : DeviceEvent(e)
    \/ \E r \in Renderers : GfxDeviceChange(r)
    \/ \E p \in CallbackPtrs :
          Java_com_ground_up_software_bridge_CBridgePlugin_SetUnitySendMessageCallback(p)
    \/ \E triple \in JavaTriples : Deliveries < MaxAll /\ SendEntry(triple)
    \/ SendStep
    \/ Java_com_ground_up_software_bridge_CBridgePlugin_GetRenderEventFunc
    \/ \E t \in Threads, e \in EventIds : Dispatches < MaxAll /\ RenderEventFunc(t, e)

Spec == Init /\ [][Next]_vars

\* The message relay: library load, registrations and delivery calls.
NextRelay ==
    \/ \E t \in Threads : JNI_OnLoad(t)
    \/ \E p \in CallbackPtrs :
          Java_com_ground_up_software_bridge_CBridgePlugin_SetUnitySendMessageCallback(p)
    \/ \E triple \in JavaTriples : Deliveries < MaxCalls /\ SendEntry(triple)
    \/ SendStep

SpecRelay == Init /\ [][NextRelay]_vars

\* The engine-facing surface: library load, the accessor, render dispatches,
\* plugin load and unload, device events and the graphics layer's backend
\* changes.
NextEngine ==
    \/ \E t \in Threads : JNI_OnLoad(t)
    \/ Java_com_ground_up_software_bridge_CBridgePlugin_GetRenderEventFunc
    \/ \E t \in Threads, e \in EventIds : Dispatches < MaxRender /\ RenderEventFunc(t, e)
    \/ \E i \in Interfaces : UnityPluginLoad(i)
    \/ UnityPluginUnload
    \/ \E e \in DeviceEvents : DeviceEvent(e)
    \/ \E r \in Renderers : GfxDeviceChange(r)

SpecEngine == Init /\ [][NextEngine]_vars

\* -------------------------------------------------------------- properties
\* The texts of an invocation, as the managed side decodes what it was given.
TextsOf(inv) ==
    << DecodeUnits(inv.target), DecodeUnits(inv.method), DecodeUnits(inv.message) >>

DeliveredTexts == [i \in 1..Len(delivered) |-> TextsOf(delivered[i])]

BeforeInvocation == {"L143", "L144", "L145", "L149"}
AfterInvocation == {"L151", "L152", "L153"}

\* C1: every delivery call made while a non-null deliverer is registered
\* invokes the deliverer exactly once before it returns, with the three texts
\* unchanged and in the order (target, method, message): the deliverer's
\* invocations are the delivery calls, in order, the call in progress being
\* the only one that may still lack its invocation.
C1_DeliveredEqualsSent ==
    /\ Len(delivered) <= Len(sendCalls)
    /\ DeliveredTexts = SubSeq(sendCalls, 1, Len(delivered))
    /\ pc \in BeforeInvocation => Len(delivered) = Len(sendCalls) - 1
    /\ pc \notin BeforeInvocation => Len(delivered) = Len(sendCalls)
    /\ \A i \in 1..Len(delivered) : delivered[i].fn # 0

\* Two calls returned, the second with an embedded U+0000 and a two-byte
\* character, and both reached the deliverer.
C1_Witness ==
    /\ pc = "idle"
    /\ Len(sendCalls) = 2
    /\ Len(delivered) = 2
    /\ sendCalls[1] = << <<65>>, <<66>>, <<67>> >>
    /\ sendCalls[2] = << <<>>, <<0, 65>>, <<233>> >>

\* A delivery call is entered: the managed side's count of calls grows.
CallEntered == Len(sendCalls') + droppedCalls' = Len(sendCalls) + droppedCalls + 1

\* C2: a delivery call made while the deliverer pointer is 0 invokes nothing,
\* pins no string buffer, logs one line and returns, and leaves the globals
\* unchanged.
C2_NoDelivererIsNoOp ==
    [][ (CallEntered /\ unitySendMessageCallback = 0) =>
            /\ delivered' = delivered
            /\ inDeliverer' = inDeliverer
            /\ heldBuffers' = heldBuffers
            /\ frame' = frame
            /\ pc' = "idle"
            /\ traces' = traces + 1
            /\ globals' = globals ]_vars

\* A call was delivered, the deliverer was then set to 0, and a later call
\* was dropped.
C2_Witness ==
    /\ pc = "idle"
    /\ lastRegistered = << 0 >>
    /\ droppedCalls = 1
    /\ traces = 1
    /\ Len(delivered) = 1

\* C3 as stated: after any registration, whatever the pointer, a later
\* delivery call goes on to invoke the pointer registered last.
C3_Original ==
    [][ /\ (CallEntered /\ lastRegistered # << >>) => pc' = "L143"
        /\ Len(delivered') > Len(delivered) =>
              delivered'[Len(delivered')].fn = lastRegistered[1] ]_vars

\* C3, amended: a delivery call made when the last registration is a non-zero
\* pointer goes on to invoke exactly that pointer, and no earlier one; a
\* delivery call made when the last registration is 0 invokes nothing.
C3_LastRegistrationWins ==
    [][ /\ (CallEntered /\ DelivererRegistered) => pc' = "L143"
        /\ (CallEntered /\ lastRegistered = << 0 >>) =>
              pc' = "idle" /\ delivered' = delivered
        /\ Len(delivered') > Len(delivered) =>
              /\ DelivererRegistered
              /\ delivered'[Len(delivered')].fn = lastRegistered[1] ]_vars

\* Deliverer 31 was registered and used, then 32 was registered and the next
\* call went to 32.
C3_Witness ==
    /\ pc = "idle"
    /\ Len(delivered) = 2
    /\ delivered[1].fn = 31
    /\ delivered[2].fn = 32
    /\ lastRegistered = << 32 >>

\* C8: in a successful delivery the three buffers are pinned before the
\* deliverer is invoked, stay pinned while it runs, and each is released
\* exactly once after it returns and before the call returns; no buffer is
\* pinned between calls.
C8_BuffersHeldThenReleased ==
    /\ pc = "L149" => heldBuffers = ArgNames
    /\ inDeliverer => heldBuffers = ArgNames
    /\ inDeliverer <=> pc = "L149ret"
    /\ pc \in BeforeInvocation \cup {"L149ret"} => \A a \in ArgNames : releases[a] = 0
    /\ pc \in AfterInvocation => Len(delivered) = Len(sendCalls)
    /\ \A a \in ArgNames : releases[a] <= 1
    /\ \A a \in ArgNames : (releases[a] = 1) => a \notin heldBuffers
    /\ pc = "idle" => heldBuffers = {}
    /\ (pc = "idle" /\ delivered # << >>) => \A a \in ArgNames : releases[a] = 1

\* A successful delivery returned: every buffer released once, none pinned.
C8_Witness ==
    /\ pc = "idle"
    /\ delivered # << >>
    /\ heldBuffers = {}
    /\ \A a \in ArgNames : releases[a] = 1

\* A render dispatch is made with a code other than 2.
OtherCodeDispatched == dispatchedOther' = dispatchedOther + 1

\* C4: the invocations of the zero-argument static method
\* RenderUpdateBridgePlugins of CBridgePlugin are as many as the render
\* dispatches made with code 2, nothing else is ever invoked, and a dispatch
\* with any other code invokes nothing and changes no global.
C4_InvocationsEqualCode2Dispatches ==
    /\ [](javaCalls = dispatched2)
    /\ [](\A inv \in javaInvoked :
             inv.class = ClassName /\ inv.method = MethodName /\ inv.sig = MethodSig)
    /\ [][ OtherCodeDispatched =>
              /\ javaCalls' = javaCalls
              /\ javaInvoked' = javaInvoked
              /\ globals' = globals ]_vars

\* Two dispatches with code 2 and one with another code: two invocations.
C4_Witness ==
    /\ dispatched2 = 2
    /\ dispatchedOther = 1
    /\ javaCalls = 2
    /\ javaInvoked # {}

\* C5: once the plugin was loaded, the stored backend identifier is what the
\* graphics layer reported at the most recent initialize event if no shutdown
\* event followed it, and the null marker if the most recent of the
\* initialize and shutdown events was a shutdown; reset events and backend
\* changes in between leave it alone.  Before the first load it is the null
\* marker.
C5_RendererFollowsLastDeviceEvent ==
    unity_renderer_type =
        IF lastDeviceEvent.type = kUnityGfxDeviceEventInitialize
        THEN lastDeviceEvent.reported
        ELSE kUnityGfxRendererNull

\* The graphics layer changed backend after the last initialize event and a
\* reset event (which calls nothing) was handled since: the stored identifier
\* is still the one reported at the initialize event.
C5_Witness ==
    /\ deviceEventCallback
    /\ lastDeviceEvent.type = kUnityGfxDeviceEventInitialize
    /\ lastDeviceEvent.reported # gfxRenderer
    /\ unity_renderer_type = lastDeviceEvent.reported
    /\ gfxCalls = << >>

\* C6 as stated: whenever the plugin is not loaded (never loaded, or
\* UnityPluginUnload has returned) the stored backend identifier is the null
\* marker.
C6_Original == ~pluginLoaded => unity_renderer_type = kUnityGfxRendererNull

\* The plugin goes from loaded to unloaded: UnityPluginUnload runs.
Unloaded == pluginLoaded /\ ~pluginLoaded'

\* C6, amended: the stored backend identifier is the null marker after a
\* shutdown device event; UnityPluginUnload unregisters the device-event
\* callback and leaves the backend identifier and both graphics handles as
\* they were.
C6_ShutdownResetsUnloadKeeps ==
    /\ [](lastDeviceEvent.type = kUnityGfxDeviceEventShutdown =>
             unity_renderer_type = kUnityGfxRendererNull)
    /\ [][ Unloaded =>
              /\ unity_renderer_type' = unity_renderer_type
              /\ unity_graphics' = unity_graphics
              /\ unity_interfaces' = unity_interfaces
              /\ ~deviceEventCallback' ]_vars

\* The plugin was unloaded after a shutdown event: the identifier is the null
\* marker, the graphics handle is still set.
C6_Witness ==
    /\ ~pluginLoaded
    /\ ~deviceEventCallback
    /\ lastDeviceEvent.type = kUnityGfxDeviceEventShutdown
    /\ unity_renderer_type = kUnityGfxRendererNull
    /\ unity_graphics # 0

\* The plugin goes from unloaded to loaded: UnityPluginLoad runs.
Loaded == ~pluginLoaded /\ pluginLoaded'

\* C7: UnityPluginLoad fetches the graphics interface from the supplied
\* interfaces handle, registers the device-event callback through it and then
\* queries the backend through it, in that order; when it returns both
\* handles are stored, the callback is registered and the stored backend is
\* what the graphics layer reports at that moment.  The callback is
\* registered exactly while the plugin is loaded.
C7_LoadRegistersThenInitializes ==
    /\ [](deviceEventCallback <=> pluginLoaded)
    /\ [][ Loaded =>
              /\ Len(gfxCalls') = 3
              /\ gfxCalls'[1].fn = "Get<IUnityGraphics>"
              /\ gfxCalls'[1].via \in Interfaces
              /\ gfxCalls'[2] =
                    [fn |-> "RegisterDeviceEventCallback",
                     via |-> GetIUnityGraphics(gfxCalls'[1].via)]
              /\ gfxCalls'[3] =
                    [fn |-> "GetRenderer", via |-> GetIUnityGraphics(gfxCalls'[1].via)]
              /\ unity_interfaces' = gfxCalls'[1].via
              /\ unity_graphics' = GetIUnityGraphics(gfxCalls'[1].via)
              /\ deviceEventCallback'
              /\ unity_renderer_type' = gfxRenderer' ]_vars

\* UnityPluginLoad returned for interfaces handle 22: three calls into the
\* graphics layer, the callback registered, the reported backend stored.
C7_Witness ==
    /\ pluginLoaded
    /\ Len(gfxCalls) = 3
    /\ unity_interfaces = 22
    /\ deviceEventCallback
    /\ unity_renderer_type = gfxRenderer
    /\ lastDeviceEvent = [type |-> kUnityGfxDeviceEventInitialize, reported |-> gfxRenderer]

\* C10: jni_env is null before JNI_OnLoad and from then on the JNIEnv of the
\* thread that loaded the library; every class lookup, method lookup and call
\* of a code-2 dispatch goes through that one JNIEnv, whichever thread runs
\* the dispatcher.
C10_DispatchUsesLoaderEnv ==
    /\ loaderThread = 0 => jni_env = 0 /\ javaInvoked = {}
    /\ loaderThread # 0 => jni_env = AttachCurrentThread(VmHandle, loaderThread)
    /\ \A inv \in javaInvoked : inv.envs = {AttachCurrentThread(VmHandle, loaderThread)}

\* Both threads ran a code-2 dispatch, so one of them is not the loader, and
\* a single JNIEnv was used throughout.
C10_Witness ==
    /\ dispatchers = Threads
    /\ javaCalls >= 2
    /\ Cardinality(javaInvoked) = 1

\* C9: under every interleaving of the main-thread entry points, the
\* lifecycle handlers and the render dispatcher, a step that changes the
\* deliverer pointer is a step of the registration entry point: render
\* dispatch with any code, device events, plugin load and unload, the steps
\* of a delivery call and the dispatcher-address accessor leave it unchanged.
C9_OnlyRegistrationWritesDeliverer ==
    [][ unitySendMessageCallback' # unitySendMessageCallback =>
            \E p \in CallbackPtrs :
                Java_com_ground_up_software_bridge_CBridgePlugin_SetUnitySendMessageCallback(p)
      ]_vars

\* The deliverer is running in a delivery call, after a code-2 render
\* dispatch, a plugin load and a shutdown device event: the pointer is still
\* the one registered.
C9_Witness ==
    /\ inDeliverer
    /\ javaCalls = 1
    /\ pluginLoaded
    /\ lastDeviceEvent.type = kUnityGfxDeviceEventShutdown
    /\ renderEventFunc # 0
    /\ unitySendMessageCallback # 0
    /\ lastRegistered = << unitySendMessageCallback >>
====
